---- MODULE Spec2Model ----
(***************************************************************************)
(* The concurrent-contention benchmarks of benchmarks.cpp: the busy-wait   *)
(* Barrier and the five benchmarks BM_falseSharing, BM_noFalseSharing,     *)
(* BM_useMutex, BM_useMutexNoContention and BM_useAtomic.                  *)
(*                                                                         *)
(* Two specifications, each also with fairly scheduled threads             *)
(* (FairSpecBarrier, FairSpec):                                            *)
(*   SpecBarrier  one Barrier(n), n drawn from 1..MaxParticipants, and a   *)
(*                set of threads that each call arriveAndWait() once;      *)
(*   Spec         one benchmark function, drawn from the five, whose state *)
(*                loop runs MaxTrials trials: the controller thread        *)
(*                ("main") and the worker threads a and b.                 *)
(* One step of a thread is one access to memory another thread may see     *)
(* (an atomic operation, a plain load, a plain store, a mutex operation)   *)
(* or one thread-local statement.                                          *)
(***************************************************************************)
EXTENDS Integers, FiniteSets, Sequences, TLC

VARIABLES
    bm,                 \* the benchmark function being run ("Barrier": none)
    iteration,          \* trials the state loop has started so far
    reported,           \* calls of state.SetIterationTime so far
    pc,                 \* where each thread is
    numThreadsArrived,  \* Barrier::_numThreadsArrived
    numTotalThreads,    \* Barrier::_numTotalThreads
    i,                  \* each worker's loop variable
    reg,                \* the value each worker loaded for its plain ++
    counterA,           \* counterA.val (BM_falseSharing, BM_noFalseSharing)
    counterB,           \* counterB.val
    counter,            \* the shared counter (BM_useMutex, BM_useAtomic)
    mtx,                \* the shared mutex of BM_useMutex: TRUE when locked
    localCounter,       \* each worker's own counter (BM_useMutexNoContention)
    localMtx            \* each worker's own mutex: TRUE when locked

vars == <<bm, iteration, reported, pc, numThreadsArrived, numTotalThreads,
          i, reg, counterA, counterB, counter, mtx, localCounter, localMtx>>

(***************************************************************************)
(* Bounds of the model.  The two iteration counts are 1000000 in the       *)
(* source; the model runs the same loops with a small count.               *)
(***************************************************************************)
MaxThreads == 3
MaxParticipants == 3
MaxTrials == 2
kNumIterationsFalseSharing == 2
kNumIterationsMutex == 2

Controller == "main"
Workers == {"a", "b"}
Threads == {Controller} \cup Workers

FalseSharingBenchmarks == {"BM_falseSharing", "BM_noFalseSharing"}
MutexBenchmarks == {"BM_useMutex", "BM_useMutexNoContention"}
Benchmarks == FalseSharingBenchmarks \cup MutexBenchmarks \cup {"BM_useAtomic"}

(***************************************************************************)
(* Arithmetic of the counter types.                                        *)
(***************************************************************************)
\* ++ on a std::atomic_int32_t: two's complement, wraps at 2^31 - 1.
IncInt32(v) == IF v = 2147483647 THEN -2147483647 - 1 ELSE v + 1

\* v = 2^32 - 1, written with numbers the model checker can hold (below 2^31).
IsUInt32Max(v) == v \div 65536 = 65535 /\ v % 65536 = 65535

\* ++ on a std::uint32_t: modulo 2^32.
IncUInt32(v) == IF IsUInt32Max(v) THEN 0 ELSE v + 1

(***************************************************************************)
(* Barrier                                                                 *)
(***************************************************************************)
\* Mutants of Waiting: a loop that lets the last but one arrival through, and
\* a loop that still spins when the count is complete.
WaitingOneShort(arrived, total) == arrived < total - 1

WaitingWhenComplete(arrived, total) == arrived <= total

\* Mutant of Waiting: a loop that ends only at the exact count.
WaitingUnlessEqual(arrived, total) == arrived # total

\* The condition of the busy-wait loop.
Waiting(arrived, total) == arrived < total

\* Mutant of Arrive: a ++ that is not atomic, whose store may write over the
\* increment another thread made since the load.
ArriveNotAtomic(t) ==
    /\ pc[t] = "arrive"
    /\ \E loaded \in {numThreadsArrived - 1, numThreadsArrived} :
          /\ loaded >= 0
          /\ numThreadsArrived' = IncInt32(loaded)
    /\ pc' = [pc EXCEPT ![t] = "spin"]
    /\ UNCHANGED <<bm, iteration, reported, numTotalThreads, i, reg, counterA,
                   counterB, counter, mtx, localCounter, localMtx>>

\* ++_numThreadsArrived
Arrive(t) ==
    /\ pc[t] = "arrive"
    /\ numThreadsArrived' = IncInt32(numThreadsArrived)
    /\ pc' = [pc EXCEPT ![t] = "spin"]
    /\ UNCHANGED <<bm, iteration, reported, numTotalThreads, i, reg, counterA,
                   counterB, counter, mtx, localCounter, localMtx>>

\* One evaluation of the loop condition: spin again, or return.
Poll(t) ==
    /\ pc[t] = "spin"
    /\ pc' = IF Waiting(numThreadsArrived, numTotalThreads)
                THEN pc
                ELSE [pc EXCEPT ![t] = "returned"]
    /\ UNCHANGED <<bm, iteration, reported, numThreadsArrived, numTotalThreads,
                   i, reg, counterA, counterB, counter, mtx, localCounter,
                   localMtx>>

arriveAndWait(t) == Arrive(t) \/ Poll(t)

(***************************************************************************)
(* SpecBarrier: a Barrier(n) and the threads that call it once each.       *)
(***************************************************************************)
BarrierThreads == 1..MaxThreads

\* The threads that call arriveAndWait() at some time.
Callers == {t \in DOMAIN pc : pc[t] # "idle"}

InitBarrier ==
    /\ bm = "Barrier"
    /\ iteration = 0
    /\ reported = 0
    /\ \E callers \in SUBSET BarrierThreads :
          pc = [t \in BarrierThreads |->
                   IF t \in callers THEN "arrive" ELSE "idle"]
    /\ numThreadsArrived = 0
    /\ numTotalThreads \in 1..MaxParticipants
    /\ i = [w \in Workers |-> 0]
    /\ reg = [w \in Workers |-> 0]
    /\ counterA = 0
    /\ counterB = 0
    /\ counter = 0
    /\ mtx = FALSE
    /\ localCounter = [w \in Workers |-> 0]
    /\ localMtx = [w \in Workers |-> FALSE]

NextBarrier == \E t \in BarrierThreads : Arrive(t) \/ Poll(t)

SpecBarrier == InitBarrier /\ [][NextBarrier]_vars

\* Every thread that is scheduled again and again takes its next step.
FairSpecBarrier ==
    SpecBarrier /\ \A t \in BarrierThreads : WF_vars(arriveAndWait(t))

(***************************************************************************)
(* The five benchmarks.  What differs between them:                        *)
(***************************************************************************)
\* The argument of the Barrier constructor in each benchmark.
BarrierArg(b) ==
    IF b \in {"BM_useMutexNoContention", "BM_useAtomic"} THEN 2 ELSE 3

\* The bound of each worker's for loop.
NumIterations(b) ==
    IF b \in FalseSharingBenchmarks
        THEN kNumIterationsFalseSharing
        ELSE kNumIterationsMutex

\* The condition of the for loop.
ForCond(iv, n) == iv < n

\* Mutant of LocalOf: both lambdas use the mutex and the counter of a.
LocalOfA(t) == "a"

\* The thread whose lambda declares the mutex and the counter that worker t
\* uses in BM_useMutexNoContention: each lambda declares its own.
LocalOf(t) == t

\* Mutant of CounterOf: both lambdas increment counterA.
CounterOfBothA(t) == "counterA"

\* The counter worker t increments in the false-sharing benchmarks.
CounterOf(t) == IF t = "a" THEN "counterA" ELSE "counterB"

\* The first statement of the loop body.
BodyEntry(b) ==
    CASE b \in FalseSharingBenchmarks -> "load"
      [] b \in MutexBenchmarks -> "lock"
      [] b = "BM_useAtomic" -> "fetch_add"

(***************************************************************************)
(* The worker threads a and b, after barrier.arriveAndWait() has returned. *)
(***************************************************************************)
\* std::mutex mtx; std::uint32_t counter{0};  (BM_useMutexNoContention)
LocalDecl(t) ==
    /\ bm = "BM_useMutexNoContention"
    /\ pc[t] = "returned"
    /\ localMtx' = [localMtx EXCEPT ![LocalOf(t)] = FALSE]
    /\ localCounter' = [localCounter EXCEPT ![LocalOf(t)] = 0]
    /\ pc' = [pc EXCEPT ![t] = "declared"]
    /\ UNCHANGED <<bm, iteration, reported, numThreadsArrived, numTotalThreads,
                   i, reg, counterA, counterB, counter, mtx>>

\* for (auto i = 0; ...
ForInit(t) ==
    /\ bm \in Benchmarks
    /\ pc[t] = IF bm = "BM_useMutexNoContention" THEN "declared" ELSE "returned"
    /\ i' = [i EXCEPT ![t] = 0]
    /\ pc' = [pc EXCEPT ![t] = "for_test"]
    /\ UNCHANGED <<bm, iteration, reported, numThreadsArrived, numTotalThreads,
                   reg, counterA, counterB, counter, mtx, localCounter,
                   localMtx>>

\* ... i < kNumIterations...; ...  The thread ends when the loop does.
ForTest(t) ==
    /\ pc[t] = "for_test"
    /\ pc' = [pc EXCEPT ![t] = IF ForCond(i[t], NumIterations(bm))
                                  THEN BodyEntry(bm)
                                  ELSE "done"]
    /\ UNCHANGED <<bm, iteration, reported, numThreadsArrived, numTotalThreads,
                   i, reg, counterA, counterB, counter, mtx, localCounter,
                   localMtx>>

\* Mutant of Lock: the body is entered without waiting for the mutex.
LockWithoutWaiting(t) ==
    /\ pc[t] = "lock"
    /\ IF bm = "BM_useMutex"
          THEN mtx' = TRUE /\ UNCHANGED localMtx
          ELSE /\ localMtx' = [localMtx EXCEPT ![LocalOf(t)] = TRUE]
               /\ UNCHANGED mtx
    /\ pc' = [pc EXCEPT ![t] = "load"]
    /\ UNCHANGED <<bm, iteration, reported, numThreadsArrived, numTotalThreads,
                   i, reg, counterA, counterB, counter, localCounter>>

\* std::lock_guard lk(mtx): blocks while the mutex is locked.
Lock(t) ==
    /\ pc[t] = "lock"
    /\ IF bm = "BM_useMutex"
          THEN /\ ~mtx
               /\ mtx' = TRUE
               /\ UNCHANGED localMtx
          ELSE /\ ~localMtx[LocalOf(t)]
               /\ localMtx' = [localMtx EXCEPT ![LocalOf(t)] = TRUE]
               /\ UNCHANGED mtx
    /\ pc' = [pc EXCEPT ![t] = "load"]
    /\ UNCHANGED <<bm, iteration, reported, numThreadsArrived, numTotalThreads,
                   i, reg, counterA, counterB, counter, localCounter>>

\* The value a plain ++ reads.
Load(t) ==
    /\ pc[t] = "load"
    /\ reg' = [reg EXCEPT ![t] =
                  CASE bm \in FalseSharingBenchmarks ->
                          IF CounterOf(t) = "counterA" THEN counterA
                                                       ELSE counterB
                    [] bm = "BM_useMutex" -> counter
                    [] bm = "BM_useMutexNoContention" ->
                          localCounter[LocalOf(t)]]
    /\ pc' = [pc EXCEPT ![t] = "store"]
    /\ UNCHANGED <<bm, iteration, reported, numThreadsArrived, numTotalThreads,
                   i, counterA, counterB, counter, mtx, localCounter, localMtx>>

\* The value a plain ++ writes back.
Store(t) ==
    /\ pc[t] = "store"
    /\ CASE bm \in FalseSharingBenchmarks ->
               /\ IF CounterOf(t) = "counterA"
                     THEN /\ counterA' = IncUInt32(reg[t])
                          /\ UNCHANGED counterB
                     ELSE /\ counterB' = IncUInt32(reg[t])
                          /\ UNCHANGED counterA
               /\ UNCHANGED <<counter, localCounter>>
               /\ pc' = [pc EXCEPT ![t] = "for_incr"]
         [] bm = "BM_useMutex" ->
               /\ counter' = IncUInt32(reg[t])
               /\ UNCHANGED <<counterA, counterB, localCounter>>
               /\ pc' = [pc EXCEPT ![t] = "unlock"]
         [] bm = "BM_useMutexNoContention" ->
               /\ localCounter' =
                     [localCounter EXCEPT ![LocalOf(t)] = IncUInt32(reg[t])]
               /\ UNCHANGED <<counterA, counterB, counter>>
               /\ pc' = [pc EXCEPT ![t] = "unlock"]
    /\ UNCHANGED <<bm, iteration, reported, numThreadsArrived, numTotalThreads,
                   i, reg, mtx, localMtx>>

\* The end of the loop body destroys lk, which unlocks the mutex.
Unlock(t) ==
    /\ pc[t] = "unlock"
    /\ IF bm = "BM_useMutex"
          THEN mtx' = FALSE /\ UNCHANGED localMtx
          ELSE /\ localMtx' = [localMtx EXCEPT ![LocalOf(t)] = FALSE]
               /\ UNCHANGED mtx
    /\ pc' = [pc EXCEPT ![t] = "for_incr"]
    /\ UNCHANGED <<bm, iteration, reported, numThreadsArrived, numTotalThreads,
                   i, reg, counterA, counterB, counter, localCounter>>

\* Mutant of FetchAdd: a ++ that is not atomic, whose store may write over
\* the increment another thread made since the load.
FetchAddNotAtomic(t) ==
    /\ pc[t] = "fetch_add"
    /\ \E loaded \in {counter - 1, counter} : counter' = IncInt32(loaded)
    /\ pc' = [pc EXCEPT ![t] = "for_incr"]
    /\ UNCHANGED <<bm, iteration, reported, numThreadsArrived, numTotalThreads,
                   i, reg, counterA, counterB, mtx, localCounter, localMtx>>

\* ++counter on the std::atomic_int32_t of BM_useAtomic: one atomic step.
FetchAdd(t) ==
    /\ pc[t] = "fetch_add"
    /\ counter' = IncInt32(counter)
    /\ pc' = [pc EXCEPT ![t] = "for_incr"]
    /\ UNCHANGED <<bm, iteration, reported, numThreadsArrived, numTotalThreads,
                   i, reg, counterA, counterB, mtx, localCounter, localMtx>>

\* ...; ++i)
ForIncr(t) ==
    /\ pc[t] = "for_incr"
    /\ i' = [i EXCEPT ![t] = i[t] + 1]
    /\ pc' = [pc EXCEPT ![t] = "for_test"]
    /\ UNCHANGED <<bm, iteration, reported, numThreadsArrived, numTotalThreads,
                   reg, counterA, counterB, counter, mtx, localCounter,
                   localMtx>>

\* One step of the lambda worker t runs.
WorkerStep(t) ==
    \/ arriveAndWait(t)
    \/ LocalDecl(t)
    \/ ForInit(t)
    \/ ForTest(t)
    \/ Lock(t)
    \/ Load(t)
    \/ Store(t)
    \/ Unlock(t)
    \/ FetchAdd(t)
    \/ ForIncr(t)

(***************************************************************************)
(* The controller: the thread that runs the benchmark function.            *)
(***************************************************************************)
\* for (auto _ : state): the driver asks for another trial, or for none.
KeepRunning ==
    /\ pc[Controller] = "loop"
    /\ IF iteration < MaxTrials
          THEN /\ iteration' = iteration + 1
               /\ pc' = [pc EXCEPT ![Controller] =
                            IF bm = "BM_useAtomic" THEN "decl_counter"
                                                   ELSE "ctor"]
          ELSE /\ pc' = [pc EXCEPT ![Controller] = "exit"]
               /\ UNCHANGED iteration
    /\ UNCHANGED <<bm, reported, numThreadsArrived, numTotalThreads, i, reg,
                   counterA, counterB, counter, mtx, localCounter, localMtx>>

\* std::atomic_int32_t counter{0};  (BM_useAtomic, inside the state loop)
DeclCounter ==
    /\ pc[Controller] = "decl_counter"
    /\ counter' = 0
    /\ pc' = [pc EXCEPT ![Controller] = "ctor"]
    /\ UNCHANGED <<bm, iteration, reported, numThreadsArrived, numTotalThreads,
                   i, reg, counterA, counterB, mtx, localCounter, localMtx>>

\* Barrier barrier(n);
BarrierCtor ==
    /\ pc[Controller] = "ctor"
    /\ numTotalThreads' = BarrierArg(bm)
    /\ numThreadsArrived' = 0
    /\ pc' = [pc EXCEPT ![Controller] = "spawn_a"]
    /\ UNCHANGED <<bm, iteration, reported, i, reg, counterA, counterB,
                   counter, mtx, localCounter, localMtx>>

\* std::thread a([&] {...});
SpawnA ==
    /\ pc[Controller] = "spawn_a"
    /\ pc' = [pc EXCEPT ![Controller] = "spawn_b", !["a"] = "arrive"]
    /\ UNCHANGED <<bm, iteration, reported, numThreadsArrived, numTotalThreads,
                   i, reg, counterA, counterB, counter, mtx, localCounter,
                   localMtx>>

\* std::thread b([&] {...});  The controller calls arriveAndWait() next.
SpawnB ==
    /\ pc[Controller] = "spawn_b"
    /\ pc' = [pc EXCEPT ![Controller] = "arrive", !["b"] = "arrive"]
    /\ UNCHANGED <<bm, iteration, reported, numThreadsArrived, numTotalThreads,
                   i, reg, counterA, counterB, counter, mtx, localCounter,
                   localMtx>>

\* auto start = std::chrono::high_resolution_clock::now();
TakeStart ==
    /\ bm \in Benchmarks
    /\ pc[Controller] = "returned"
    /\ pc' = [pc EXCEPT ![Controller] = "join_a"]
    /\ UNCHANGED <<bm, iteration, reported, numThreadsArrived, numTotalThreads,
                   i, reg, counterA, counterB, counter, mtx, localCounter,
                   localMtx>>

\* Mutant of JoinA: the controller goes on without waiting for thread a,
\* which keeps running.
JoinAWithoutWaiting ==
    /\ pc[Controller] = "join_a"
    /\ pc' = [pc EXCEPT ![Controller] = "join_b"]
    /\ UNCHANGED <<bm, iteration, reported, numThreadsArrived, numTotalThreads,
                   i, reg, counterA, counterB, counter, mtx, localCounter,
                   localMtx>>

\* a.join(): returns once thread a has ended.
JoinA ==
    /\ pc[Controller] = "join_a"
    /\ pc["a"] = "done"
    /\ pc' = [pc EXCEPT ![Controller] = "join_b", !["a"] = "joined"]
    /\ UNCHANGED <<bm, iteration, reported, numThreadsArrived, numTotalThreads,
                   i, reg, counterA, counterB, counter, mtx, localCounter,
                   localMtx>>

\* Mutant of JoinB: the controller goes on without waiting for thread b,
\* which keeps running.
JoinBWithoutWaiting ==
    /\ pc[Controller] = "join_b"
    /\ pc' = [pc EXCEPT ![Controller] = "end"]
    /\ UNCHANGED <<bm, iteration, reported, numThreadsArrived, numTotalThreads,
                   i, reg, counterA, counterB, counter, mtx, localCounter,
                   localMtx>>

\* b.join();
JoinB ==
    /\ pc[Controller] = "join_b"
    /\ pc["b"] = "done"
    /\ pc' = [pc EXCEPT ![Controller] = "end", !["b"] = "joined"]
    /\ UNCHANGED <<bm, iteration, reported, numThreadsArrived, numTotalThreads,
                   i, reg, counterA, counterB, counter, mtx, localCounter,
                   localMtx>>

\* auto end = std::chrono::high_resolution_clock::now(); and the duration
TakeEnd ==
    /\ pc[Controller] = "end"
    /\ pc' = [pc EXCEPT ![Controller] = "report"]
    /\ UNCHANGED <<bm, iteration, reported, numThreadsArrived, numTotalThreads,
                   i, reg, counterA, counterB, counter, mtx, localCounter,
                   localMtx>>

\* state.SetIterationTime(...); the loop body ends, which destroys b, a and
\* the barrier.  Both threads have been joined by then: their objects go
\* and no thread is left behind.
Report ==
    /\ pc[Controller] = "report"
    /\ reported' = reported + 1
    /\ pc' = [t \in Threads |->
                 IF t = Controller THEN "loop"
                 ELSE IF pc[t] = "joined" THEN "unborn" ELSE pc[t]]
    /\ UNCHANGED <<bm, iteration, numThreadsArrived, numTotalThreads, i, reg,
                   counterA, counterB, counter, mtx, localCounter, localMtx>>

ControllerStep ==
    \/ KeepRunning
    \/ DeclCounter
    \/ BarrierCtor
    \/ SpawnA
    \/ SpawnB
    \/ arriveAndWait(Controller)
    \/ TakeStart
    \/ JoinA
    \/ JoinB
    \/ TakeEnd
    \/ Report

(***************************************************************************)
(* Spec: one benchmark function, from its first line on.                   *)
(***************************************************************************)
Init ==
    /\ bm \in Benchmarks
    /\ iteration = 0
    /\ reported = 0
    /\ pc = [t \in Threads |-> IF t = Controller THEN "loop" ELSE "unborn"]
    /\ numThreadsArrived = 0
    /\ numTotalThreads = 0
    /\ i = [w \in Workers |-> 0]
    /\ reg = [w \in Workers |-> 0]
    /\ counterA = 0
    /\ counterB = 0
    /\ counter = 0
    /\ mtx = FALSE
    /\ localCounter = [w \in Workers |-> 0]
    /\ localMtx = [w \in Workers |-> FALSE]

Next == ControllerStep \/ \E w \in Workers : WorkerStep(w)

Spec == Init /\ [][Next]_vars

\* Every thread that is scheduled again and again takes its next step.
FairSpec ==
    /\ Spec
    /\ WF_vars(ControllerStep)
    /\ \A w \in Workers : WF_vars(WorkerStep(w))

(***************************************************************************)
(* Properties of the Barrier, under SpecBarrier and FairSpecBarrier.       *)
(***************************************************************************)
\* Exactly as many threads call arriveAndWait() as the Barrier was built for.
ExactlyEnoughCallers == Cardinality(Callers) = numTotalThreads

\* Fewer threads call arriveAndWait() than the Barrier was built for.
TooFewCallers == Cardinality(Callers) < numTotalThreads

\* C1: when exactly N threads call arriveAndWait() on a Barrier(N), no thread
\* has returned from it while some thread has not yet made its increment.
BarrierSafety ==
    ExactlyEnoughCallers =>
        \A t \in Callers :
            pc[t] = "returned" => \A u \in Callers : pc[u] # "arrive"

\* Two or more threads, all arrived, one back from the call, one still in it.
BarrierSafetyWitness ==
    /\ ExactlyEnoughCallers
    /\ numTotalThreads >= 2
    /\ \E t \in Callers : pc[t] = "returned"
    /\ \E u \in Callers : pc[u] = "spin"

\* C2: when exactly N threads call arriveAndWait() on a Barrier(N) and every
\* thread keeps being scheduled, all N calls return.
BarrierLiveness ==
    ExactlyEnoughCallers => <>(\A t \in Callers : pc[t] = "returned")

\* Two or more threads, every one of them back from the call.
BarrierLivenessWitness ==
    /\ ExactlyEnoughCallers
    /\ numTotalThreads >= 2
    /\ \A t \in Callers : pc[t] = "returned"

\* C10: when fewer than N threads ever call arriveAndWait() on a Barrier(N), no
\* caller returns, and a caller that spins goes on spinning.
BarrierStarvation ==
    /\ [](TooFewCallers => \A t \in Callers : pc[t] # "returned")
    /\ [][TooFewCallers =>
             \A t \in Callers : pc[t] = "spin" => pc'[t] = "spin"]_vars

\* Some threads called, too few, and all of them spin.
BarrierStarvationWitness ==
    /\ TooFewCallers
    /\ Callers # {}
    /\ \A t \in Callers : pc[t] = "spin"

(***************************************************************************)
(* Properties of the trials, under Spec.                                   *)
(***************************************************************************)
\* Thread t has made its arrival increment in the current trial.
HasArrived(t) ==
    IF t = Controller
        THEN pc[t] \in {"spin", "returned", "join_a", "join_b", "end", "report"}
        ELSE pc[t] \notin {"unborn", "arrive"}

\* The controller has recorded the start timestamp of the current trial.
StartTaken == pc[Controller] \in {"join_a", "join_b", "end", "report"}

\* Worker w has entered its scenario body in the current trial.
InBody(w) ==
    pc[w] \in {"declared", "for_test", "lock", "load", "store", "unlock",
               "fetch_add", "for_incr", "done", "joined"}

\* Both workers of the current trial have ended their loops.
WorkersFinished == \A w \in Workers : pc[w] \in {"done", "joined"}

\* n increments of a std::uint32_t that holds v.
RECURSIVE AddUInt32(_, _)
AddUInt32(v, n) == IF n = 0 THEN v ELSE AddUInt32(IncUInt32(v), n - 1)

\* C3: the controller records its start timestamp only after both workers
\* and the controller have made their arrival increments.
StartAfterAllArrived == StartTaken => \A t \in Threads : HasArrived(t)

\* C4: no worker executes a step of its scenario body before both workers
\* and the controller have made their arrival increments.
BodyAfterAllArrived ==
    \A w \in Workers : InBody(w) => \A t \in Threads : HasArrived(t)

\* C5: the arrival counter never exceeds the participant count the Barrier
\* was constructed with.
ArrivedAtMostTotal == numThreadsArrived <= numTotalThreads

\* C6: in every trial of BM_useAtomic, once both workers are joined the
\* atomic counter equals W * I.
AtomicExact ==
    (bm = "BM_useAtomic" /\ \A w \in Workers : pc[w] = "joined") =>
        counter = Cardinality(Workers) * kNumIterationsMutex

\* Both workers joined in a second trial of BM_useAtomic.
AtomicExactWitness ==
    /\ bm = "BM_useAtomic"
    /\ iteration = 2
    /\ \A w \in Workers : pc[w] = "joined"

\* C7 as stated: in every trial of BM_useMutex, once both workers have
\* finished the shared counter equals W * I.
MutexExactEveryTrial ==
    (bm = "BM_useMutex" /\ WorkersFinished) =>
        counter = Cardinality(Workers) * kNumIterationsMutex

\* C7 as amended: in the k-th trial of BM_useMutex, once both workers have
\* finished the shared counter equals k * W * I modulo 2^32.
MutexExactAccumulated ==
    (bm = "BM_useMutex" /\ WorkersFinished) =>
        counter =
            AddUInt32(0, iteration * Cardinality(Workers) * kNumIterationsMutex)

\* Both workers finished in a second trial of BM_useMutex.
MutexExactWitness ==
    /\ bm = "BM_useMutex"
    /\ iteration = 2
    /\ WorkersFinished
    /\ counter > Cardinality(Workers) * kNumIterationsMutex

\* C8 as stated: in every trial of the two false-sharing benchmarks, once
\* both workers have finished each counter is at most I.
FalseSharingAtMostI ==
    (bm \in FalseSharingBenchmarks /\ WorkersFinished) =>
        /\ counterA <= kNumIterationsFalseSharing
        /\ counterB <= kNumIterationsFalseSharing

\* C8 as amended: in the k-th trial of the two false-sharing benchmarks, once
\* both workers have finished each counter is at most k * I.
FalseSharingAtMostIPerTrial ==
    (bm \in FalseSharingBenchmarks /\ WorkersFinished) =>
        /\ counterA <= iteration * kNumIterationsFalseSharing
        /\ counterB <= iteration * kNumIterationsFalseSharing

\* Both workers finished in a second trial, both counters above I.
FalseSharingWitness ==
    /\ bm \in FalseSharingBenchmarks
    /\ iteration = 2
    /\ WorkersFinished
    /\ counterA > kNumIterationsFalseSharing
    /\ counterB > kNumIterationsFalseSharing

\* C9: in BM_useMutexNoContention each worker's own counter equals I when
\* the worker has finished its loop, and a step of one worker changes
\* neither the other worker's counter or mutex nor any counter or mutex
\* outside the two lambdas: the workers share the Barrier alone.
NoContentionIsolation ==
    /\ [](bm = "BM_useMutexNoContention" =>
             \A w \in Workers :
                 pc[w] \in {"done", "joined"} =>
                     localCounter[w] = kNumIterationsMutex)
    /\ [][bm = "BM_useMutexNoContention" =>
             \A w \in Workers :
                 WorkerStep(w) =>
                     /\ \A u \in Workers \ {w} :
                            /\ localCounter'[u] = localCounter[u]
                            /\ localMtx'[u] = localMtx[u]
                            /\ i'[u] = i[u]
                            /\ reg'[u] = reg[u]
                     /\ UNCHANGED <<counterA, counterB, counter, mtx,
                                    numTotalThreads>>]_vars

\* Worker a has finished with its counter at I while b holds its own mutex
\* in the middle of its loop.
NoContentionWitness ==
    /\ bm = "BM_useMutexNoContention"
    /\ pc["a"] = "done"
    /\ localCounter["a"] = kNumIterationsMutex
    /\ pc["b"] = "store"
    /\ localMtx["b"]
    /\ localCounter["b"] < kNumIterationsMutex

\* C11 as stated: when the controller has recorded its start timestamp,
\* every worker has returned from its own arriveAndWait() call.
StartAfterWorkersReturned ==
    StartTaken => \A w \in Workers : pc[w] \notin {"unborn", "arrive", "spin"}

\* The threads of the current trial that have made their arrival increment.
ArrivedThreads == {t \in Threads : HasArrived(t)}

\* C11 as amended: when the controller has recorded its start timestamp, as
\* many threads as the Barrier was constructed for, the controller among
\* them, have made their arrival increment.
StartAfterBarrierComplete ==
    StartTaken =>
        /\ Cardinality(ArrivedThreads) >= BarrierArg(bm)
        /\ numThreadsArrived >= numTotalThreads

\* The start timestamp is taken in a Barrier(3) benchmark while both workers
\* have arrived and still spin.
StartAfterBarrierCompleteWitness ==
    /\ pc[Controller] = "join_a"
    /\ BarrierArg(bm) = 3
    /\ \A w \in Workers : pc[w] = "spin"

\* The controller's positions from the return of arriveAndWait() to the end
\* of the trial, in the order of the source.
TrialOrder == <<"returned", "join_a", "join_b", "end", "report", "loop">>

\* The controller is inside a trial: the state loop has started it and has
\* not yet reported its duration.
InTrial == pc[Controller] \notin {"loop", "exit"}

\* C12: in every trial the controller goes from the return of arriveAndWait()
\* to the start timestamp, the join of a, the join of b, the end timestamp
\* and the report, in this order; the end timestamp is taken only after both
\* workers have run all their iterations and ended; and one duration is
\* reported per trial.
TrialOrdering ==
    /\ [][pc'[Controller] # pc[Controller] =>
             \A k \in 1..(Len(TrialOrder) - 1) :
                 /\ pc[Controller] = TrialOrder[k] =>
                        pc'[Controller] = TrialOrder[k + 1]
                 /\ pc'[Controller] = TrialOrder[k + 1] =>
                        pc[Controller] = TrialOrder[k]]_vars
    /\ [](pc[Controller] \in {"end", "report"} =>
             \A w \in Workers :
                 pc[w] = "joined" /\ i[w] = NumIterations(bm))
    /\ [](reported = IF InTrial THEN iteration - 1 ELSE iteration)
    /\ [][reported' # reported =>
             pc[Controller] = "report" /\ reported' = reported + 1]_vars

\* The end timestamp of a second trial is taken, its duration not yet
\* reported.
TrialOrderingWitness ==
    /\ pc[Controller] = "report"
    /\ iteration = 2
    /\ reported = 1

\* The controller has constructed the Barrier of the current trial and not
\* yet destroyed it.
BarrierLives == pc[Controller] \notin {"loop", "decl_counter", "ctor", "exit"}

\* C13: when a trial constructs its Barrier and spawns its workers, no worker
\* thread of an earlier trial is left: a thread runs only inside the trial
\* that spawned it.  So the Barrier of a trial is used by the three threads
\* of that trial alone, each arriving once: its counter is the number of
\* those threads that have arrived, and is three when the workers are joined.
TrialsNeverOverlap ==
    /\ pc[Controller] \in {"loop", "decl_counter", "ctor", "spawn_a", "exit"}
          => \A w \in Workers : pc[w] = "unborn"
    /\ pc[Controller] = "spawn_b" => pc["b"] = "unborn"
    /\ BarrierLives => numThreadsArrived = Cardinality(ArrivedThreads)
    /\ pc[Controller] \in {"end", "report"} =>
           numThreadsArrived = Cardinality(Threads)

\* A second trial is about to spawn its workers after the first one ran.
TrialsNeverOverlapWitness ==
    /\ pc[Controller] = "spawn_a"
    /\ iteration = 2
    /\ reported = 1

\* C15: under fair scheduling of every thread every trial completes: each
\* call of arriveAndWait() returns, and the trial the state loop has started
\* ends with both workers joined and its duration reported.
TrialTerminates ==
    /\ \A t \in Threads :
           (pc[t] \in {"arrive", "spin"}) ~> (pc[t] = "returned")
    /\ \A k \in 1..MaxTrials :
           (iteration = k /\ InTrial) ~>
               (/\ reported = k
                /\ pc[Controller] = "loop"
                /\ \A w \in Workers : pc[w] = "unborn")

\* A benchmark that constructs Barrier(2) has completed its second trial.
TrialTerminatesWitness ==
    /\ BarrierArg(bm) = 2
    /\ reported = 2
    /\ pc[Controller] = "loop"

\* The workers that are between taking the shared mutex and releasing it.
InCriticalSection == {w \in Workers : pc[w] \in {"load", "store", "unlock"}}

\* C17: in BM_useMutex the shared counter is never reset and changes only by
\* an increment made while mtx is held, by one worker at a time; after k
\* completed trials it equals k * 2 * I modulo 2^32.
MutexAccumulation ==
    /\ [](bm = "BM_useMutex" =>
             /\ Cardinality(InCriticalSection) <= 1
             /\ InCriticalSection # {} => mtx
             /\ ~InTrial =>
                    counter = AddUInt32(0, reported * Cardinality(Workers)
                                              * kNumIterationsMutex))
    /\ [][(bm = "BM_useMutex" /\ counter' # counter) =>
             (mtx /\ counter' = IncUInt32(counter))]_vars

\* BM_useMutex has completed two trials.
MutexAccumulationWitness ==
    /\ bm = "BM_useMutex"
    /\ pc[Controller] = "loop"
    /\ reported = 2
    /\ counter = 2 * Cardinality(Workers) * kNumIterationsMutex

\* C18: in the two false-sharing benchmarks counterA.val is written by
\* worker a alone and counterB.val by worker b alone, every write is an
\* increment of the counter's current value, and after k completed trials
\* each counter equals k * I modulo 2^32.
SingleWriterCounters ==
    /\ [](bm \in FalseSharingBenchmarks /\ ~InTrial =>
             /\ counterA = AddUInt32(0, reported * kNumIterationsFalseSharing)
             /\ counterB = AddUInt32(0, reported * kNumIterationsFalseSharing))
    /\ [][(bm \in FalseSharingBenchmarks) =>
             ((counterA' # counterA =>
                  (Store("a") /\ counterA' = IncUInt32(counterA)))
              /\ (counterB' # counterB =>
                  (Store("b") /\ counterB' = IncUInt32(counterB))))]_vars

\* A false-sharing benchmark has completed two trials.
SingleWriterCountersWitness ==
    /\ bm \in FalseSharingBenchmarks
    /\ pc[Controller] = "loop"
    /\ reported = 2
    /\ counterA = 2 * kNumIterationsFalseSharing
    /\ counterB = 2 * kNumIterationsFalseSharing

(***************************************************************************)
(* More properties of the Barrier, under SpecBarrier and FairSpecBarrier.  *)
(***************************************************************************)
\* The calls of arriveAndWait() that have executed their increment.
IncrementedCalls == {t \in DOMAIN pc : pc[t] \in {"spin", "returned"}}

\* C14: the arrival counter equals the number of arriveAndWait() calls that
\* have executed their increment, and it never decreases.
ArrivalCounterIntegrity ==
    /\ [](numThreadsArrived = Cardinality(IncrementedCalls))
    /\ [][numThreadsArrived' >= numThreadsArrived]_vars

\* Three calls have made their increment, one of them still in its loop.
ArrivalCounterIntegrityWitness ==
    /\ numThreadsArrived = 3
    /\ \E t \in DOMAIN pc : pc[t] = "spin"
    /\ \E t \in DOMAIN pc : pc[t] = "returned"

\* The arrival counter has reached the count the Barrier was built for.
CountMet == numThreadsArrived >= numTotalThreads

\* C16: once the arrival counter has reached the participant count, every
\* caller in the loop can return at its next poll, and does so when it is
\* scheduled: also a caller that arrived after the count was met, and also
\* when more threads arrive than the Barrier was built for.
OverArrival ==
    /\ [](CountMet =>
             \A t \in DOMAIN pc : pc[t] = "spin" => ENABLED <<Poll(t)>>_vars)
    /\ \A t \in BarrierThreads :
           (pc[t] = "spin" /\ CountMet) ~> (pc[t] = "returned")

\* More threads arrived than the Barrier was built for, and all are back.
OverArrivalWitness ==
    /\ numThreadsArrived > numTotalThreads
    /\ Callers # {}
    /\ \A t \in Callers : pc[t] = "returned"

====
